---- MODULE Spec2Model ----
(***************************************************************************)
(* Model of game5/db.py: DBConnectionPool (a bounded queue of reusable     *)
(* connections), DBTaskQueue (an unbounded FIFO of tasks drained by one    *)
(* worker thread) and DB.shutdown.                                         *)
(*                                                                         *)
(* Two specifications share the pool's operators:                          *)
(*   PoolSpec : DBConnectionPool built for a pool_size in 1..MaxPoolSize   *)
(*              and used by concurrent callers of get_connection and       *)
(*              return_connection;                                         *)
(*   Spec     : the program DB() builds: a pool of the default size, the   *)
(*              worker, producers calling add_task, one DB.shutdown.       *)
(***************************************************************************)
EXTENDS Naturals, Sequences, FiniteSets

\* ---------------------------------------------------------------- bounds
MaxPoolSize == 2      \* pool sizes PoolSpec builds: 1..MaxPoolSize
NumCallers == 2       \* concurrent callers of the pool in PoolSpec
MaxExtraConns == 2    \* connections created beyond the pool's first pool_size
MaxTasks == 2         \* tasks enqueued in one run
NumThreads == 2       \* threads calling DB()
MaxCalls == 2         \* calls of DB() by one thread
MaxScore == 3         \* scores submitted to the leaderboard: 0..MaxScore
MaxSubmits == 3       \* leaderboard upserts in one run

\* ------------------------------------------------------ program constants
DefaultPoolSize == 3  \* DBConnectionPool.__init__(..., pool_size=3)

NoConn == 0           \* Python's None for a connection variable
NoTask == <<"none", 0>>    \* no task in hand

Callers == 1..NumCallers
Threads == 1..NumThreads
NoThread == 0         \* the lock is free
\* the threads calling add_task (initialize_game, game_over_handler, quit_game callers)
Producers == {"a", "b"}

\* The exception classes _process_queue tells apart, most specific first.
ExcClasses == {"OperationalError", "ProgrammingError", "Error", "Exception"}
\* What the driver's own calls (pyodbc.connect, conn.cursor, conn.commit) raise:
\* a lost connection, or another pyodbc.Error.
ConnectErrors == {"OperationalError", "Error"}

VARIABLES
    \* DBConnectionPool
    pool_size,      \* self.pool_size
    connections,    \* self.connections: the queue.Queue of idle connections
    closed,         \* the connections whose .closed is True
    created,        \* connections pyodbc.connect has returned so far (ids 1..created)
    phase,          \* __init__: "connecting", "initialized", "ready", "failed"
    \* callers of the pool (PoolSpec)
    cpc,            \* per caller: "idle", "fallback", "hold", "put"
    holding,        \* per caller: the connection it has checked out, or NoConn
    repl,           \* per caller: the replacement it is putting, or NoConn
    raised,         \* per caller: its last call of the pool raised an exception to it
    \* DBTaskQueue
    task_queue,     \* self.task_queue
    is_running,     \* self.is_running
    wpc,            \* the worker's position in _process_queue
    cur,            \* the task the worker has dequeued
    conn,           \* the worker's local conn
    cursor,         \* the worker's local cursor is not None
    exc,            \* the exception the inner try caught, or "none"
    pending,        \* an exception is propagating out of the inner try
    \* DB.shutdown
    spc,            \* "idle", "join", "close_all", "done"
    \* history
    overflowClosed, \* connections return_connection closed because the pool was full
    enqueued,       \* every task put on task_queue, in put order
    started,        \* every task the worker dequeued, in dequeue order
    rec,            \* what the processing of the task dequeued last has done so far
    lost,           \* connections a task's operation raised OperationalError on
    stopAt,         \* Len(enqueued) when shutdown set the flag (read once is_running is False)
    startedAtStop,  \* Len(started) when shutdown set the flag
    inflightAtStop, \* the task the worker had in hand when shutdown set the flag
    \* DB (the singleton) and the threads calling DB()
    _instance,      \* cls._instance: 0 for None, else the id of the DB object
    _connection_pool, \* cls._connection_pool is not None
    _task_queue,    \* cls._task_queue is not None
    _init_lock,     \* cls._init_lock: the thread inside `with`, or NoThread
    fpc,            \* per thread: its position in DB.__new__
    fret,           \* per thread: the results of its calls of DB(), 0 for an exception,
                    \* else the id of the instance returned
    instances,      \* DB objects super().__new__ has created
    poolsBuilt,     \* DBConnectionPool constructions begun
    queuesBuilt,    \* DBTaskQueue constructions (worker threads started)
    \* the leaderboard table, row (user, game 5), and the upsert task at work on it
    leaderboard,    \* <<>> when the row does not exist, else <<score>>
    lb_pc,          \* _update_leaderboard: "idle", "selected"
    lb_score,       \* its argument score
    lb_result,      \* its local result: <<>> for None, else <<stored score>>
    submitted       \* the scores of the upsert tasks run so far, in order

poolVars == <<pool_size, connections, closed, created, phase, overflowClosed>>
callerVars == <<cpc, holding, repl, raised>>
workerVars == <<task_queue, is_running, wpc, cur, conn, cursor, exc, pending>>
histVars == <<enqueued, started, rec, lost, stopAt, startedAtStop, inflightAtStop>>
facadeVars == <<_instance, _connection_pool, _task_queue, _init_lock, fpc, fret,
                instances, poolsBuilt, queuesBuilt>>
leaderVars == <<leaderboard, lb_pc, lb_score, lb_result, submitted>>
otherVars == <<facadeVars, leaderVars>>
vars == <<poolVars, callerVars, workerVars, spc, histVars, otherVars>>

\* ------------------------------------------------------------- helpers
Range(s) == {s[i] : i \in 1..Len(s)}
NoDup(s) == \A i, j \in 1..Len(s) : i # j => s[i] # s[j]
IsPrefix(s, t) == Len(s) <= Len(t) /\ \A i \in 1..Len(s) : s[i] = t[i]

\* ------------------------------------------------ queue.Queue primitives
\* Queue.full() of queue.Queue(maxsize=pool_size)
Full == Len(connections) >= pool_size
\* Queue.empty()
Empty == connections = <<>>
\* Queue.get(): the item handed out, and what stays queued (FIFO)
QueueGetLifo(q) == q[Len(q)]
QueueGet(q) == Head(q)
QueueRestKeep(q) == q
QueueRest(q) == Tail(q)
\* Queue.put(item)
QueuePut(q, x) == Append(q, x)

\* pyodbc.connect succeeding: a connection that did not exist before
CanConnect == created < pool_size + MaxExtraConns
NewConnReused == created
NewConn == created + 1
\* return_connection(c), c.closed: what is put in c's place, pyodbc.connect(...)
ReplacementSame(c) == c
Replacement(c) == NewConn

\* ------------------------------------------------ DBConnectionPool.__init__
\* for _ in range(pool_size): the loop has run pool_size times
InitLoopDoneShort == Len(connections) + 1 >= pool_size
InitLoopDone == Len(connections) = pool_size

\* conn = pyodbc.connect(...); self.connections.put(conn)
PoolInitConnect ==
    /\ phase = "connecting"
    /\ ~InitLoopDone
    /\ CanConnect
    /\ connections' = QueuePut(connections, NewConn)
    /\ created' = NewConn
    /\ UNCHANGED <<pool_size, closed, phase, overflowClosed>>
    /\ UNCHANGED <<callerVars, workerVars, spc, histVars>>
    /\ UNCHANGED otherVars

\* pyodbc.connect raises pyodbc.Error: logged and re-raised, no pool is built
PoolInitFail ==
    /\ phase = "connecting"
    /\ ~InitLoopDone
    /\ phase' = "failed"
    /\ UNCHANGED <<pool_size, connections, closed, created, overflowClosed>>
    /\ UNCHANGED <<callerVars, workerVars, spc, histVars>>
    /\ UNCHANGED otherVars

\* the loop is over: logging.info("Connection pool initialized ...")
PoolInitDone ==
    /\ phase = "connecting"
    /\ InitLoopDone
    /\ phase' = "initialized"
    /\ UNCHANGED <<pool_size, connections, closed, created, overflowClosed>>
    /\ UNCHANGED <<callerVars, workerVars, spc, histVars>>
    /\ UNCHANGED otherVars

\* __init__ returns: the pool is handed to its users
PoolConstructed ==
    /\ phase = "initialized"
    /\ phase' = "ready"
    /\ UNCHANGED <<pool_size, connections, closed, created, overflowClosed>>
    /\ UNCHANGED <<callerVars, workerVars, spc, histVars>>
    /\ UNCHANGED otherVars

\* --------------------------------------- return_connection, live connection
\* self.connections.put(conn, block=False); on queue.Full: conn.close()
PutNoWaitGrow(c) ==
    /\ connections' = QueuePut(connections, c)
    /\ UNCHANGED <<closed, overflowClosed>>
PutNoWait(c) ==
    IF ~Full
    THEN /\ connections' = QueuePut(connections, c)
         /\ UNCHANGED <<closed, overflowClosed>>
    ELSE /\ closed' = closed \cup {c}
         /\ overflowClosed' = overflowClosed \cup {c}
         /\ UNCHANGED connections

\* ------------------------------------------------- callers of the pool
\* get_connection: self.connections.get(timeout=timeout) finds an idle one
GetConnection(t) ==
    /\ phase = "ready"
    /\ cpc[t] = "idle"
    /\ ~Empty
    /\ holding' = [holding EXCEPT ![t] = QueueGet(connections)]
    /\ connections' = QueueRest(connections)
    /\ cpc' = [cpc EXCEPT ![t] = "hold"]
    /\ raised' = [raised EXCEPT ![t] = FALSE]
    /\ UNCHANGED <<pool_size, closed, created, phase, overflowClosed, repl>>
    /\ UNCHANGED <<workerVars, spc, histVars>>
    /\ UNCHANGED otherVars

\* get_connection: queue.Empty after the timeout
GetTimeout(t) ==
    /\ phase = "ready"
    /\ cpc[t] = "idle"
    /\ Empty
    /\ cpc' = [cpc EXCEPT ![t] = "fallback"]
    /\ UNCHANGED <<poolVars, holding, repl, raised, workerVars, spc, histVars>>
    /\ UNCHANGED otherVars

\* get_connection: return pyodbc.connect(self.connection_string)
FallbackConnect(t) ==
    /\ cpc[t] = "fallback"
    /\ CanConnect
    /\ holding' = [holding EXCEPT ![t] = NewConn]
    /\ created' = NewConn
    /\ cpc' = [cpc EXCEPT ![t] = "hold"]
    /\ raised' = [raised EXCEPT ![t] = FALSE]
    /\ UNCHANGED <<pool_size, connections, closed, phase, overflowClosed, repl>>
    /\ UNCHANGED <<workerVars, spc, histVars>>
    /\ UNCHANGED otherVars

\* get_connection: the fallback pyodbc.connect raises, and so does get_connection
FallbackFail(t) ==
    /\ cpc[t] = "fallback"
    /\ cpc' = [cpc EXCEPT ![t] = "idle"]
    /\ raised' = [raised EXCEPT ![t] = TRUE]
    /\ UNCHANGED <<poolVars, holding, repl, workerVars, spc, histVars>>
    /\ UNCHANGED otherVars

\* the holder closes its connection (conn.closed becomes True)
CallerClose(t) ==
    /\ cpc[t] = "hold"
    /\ holding[t] \notin closed
    /\ closed' = closed \cup {holding[t]}
    /\ UNCHANGED <<pool_size, connections, created, phase, overflowClosed>>
    /\ UNCHANGED <<callerVars, workerVars, spc, histVars>>
    /\ UNCHANGED otherVars

\* return_connection(conn), not conn.closed
ReturnLive(t) ==
    /\ cpc[t] = "hold"
    /\ holding[t] \notin closed
    /\ PutNoWait(holding[t])
    /\ holding' = [holding EXCEPT ![t] = NoConn]
    /\ cpc' = [cpc EXCEPT ![t] = "idle"]
    /\ raised' = [raised EXCEPT ![t] = FALSE]
    /\ UNCHANGED <<pool_size, created, phase, repl>>
    /\ UNCHANGED <<workerVars, spc, histVars>>
    /\ UNCHANGED otherVars

\* return_connection(conn), conn.closed: pyodbc.connect(...) for the replacement
ReturnClosed(t) ==
    /\ cpc[t] = "hold"
    /\ holding[t] \in closed
    /\ CanConnect
    /\ repl' = [repl EXCEPT ![t] = Replacement(holding[t])]
    /\ created' = NewConn
    /\ cpc' = [cpc EXCEPT ![t] = "put"]
    /\ UNCHANGED <<pool_size, connections, closed, phase, overflowClosed, holding, raised>>
    /\ UNCHANGED <<workerVars, spc, histVars>>
    /\ UNCHANGED otherVars

\* return_connection(conn), conn.closed: the connect raises; except Exception logs it
ReplaceFail(t) ==
    /\ cpc[t] = "hold"
    /\ holding[t] \in closed
    /\ holding' = [holding EXCEPT ![t] = NoConn]
    /\ cpc' = [cpc EXCEPT ![t] = "idle"]
    /\ raised' = [raised EXCEPT ![t] = FALSE]
    /\ UNCHANGED <<poolVars, repl, workerVars, spc, histVars>>
    /\ UNCHANGED otherVars

\* return_connection(conn), conn.closed: self.connections.put(replacement), a
\* blocking put: it waits while the queue is full
ReplacePut(t) ==
    /\ cpc[t] = "put"
    /\ ~Full
    /\ connections' = QueuePut(connections, repl[t])
    /\ repl' = [repl EXCEPT ![t] = NoConn]
    /\ holding' = [holding EXCEPT ![t] = NoConn]
    /\ cpc' = [cpc EXCEPT ![t] = "idle"]
    /\ raised' = [raised EXCEPT ![t] = FALSE]
    /\ UNCHANGED <<pool_size, closed, created, phase, overflowClosed>>
    /\ UNCHANGED <<workerVars, spc, histVars>>
    /\ UNCHANGED otherVars

\* ------------------------------------------------------------ PoolSpec
\* the record of a task just dequeued: the connection it ran on, the outcome of
\* its operation, whether rollback and commit were invoked, whether its
\* connection was stored back in the pool, whether its finally block is over,
\* and how often task_done was called for it
FreshRec == [res |-> NoConn, out |-> "none", rolled |-> FALSE, committed |-> FALSE,
             released |-> FALSE, fin |-> FALSE, done |-> 0]

\* the leaderboard row before any score of the user was recorded
LeaderInit ==
    /\ leaderboard = <<>>
    /\ lb_pc = "idle"
    /\ lb_score = 0
    /\ lb_result = <<>>
    /\ submitted = <<>>

\* class DB as the module is imported: nothing constructed, no thread in DB()
FacadeInit ==
    /\ _instance = 0
    /\ _connection_pool = FALSE
    /\ _task_queue = FALSE
    /\ _init_lock = NoThread
    /\ fpc = [t \in Threads |-> "idle"]
    /\ fret = [t \in Threads |-> <<>>]
    /\ instances = 0
    /\ poolsBuilt = 0
    /\ queuesBuilt = 0

\* class DB after one successful DB(): instance, pool and task queue installed
FacadeInstalled ==
    /\ _instance = 1
    /\ _connection_pool = TRUE
    /\ _task_queue = TRUE
    /\ _init_lock = NoThread
    /\ fpc = [t \in Threads |-> "idle"]
    /\ fret = [t \in Threads |-> <<>>]
    /\ instances = 1
    /\ poolsBuilt = 1
    /\ queuesBuilt = 1

HistInit ==
    /\ enqueued = <<>>
    /\ started = <<>>
    /\ rec = FreshRec
    /\ lost = {}
    /\ stopAt = 0
    /\ startedAtStop = 0
    /\ inflightAtStop = NoTask

CallersInit ==
    /\ cpc = [t \in Callers |-> "idle"]
    /\ holding = [t \in Callers |-> NoConn]
    /\ repl = [t \in Callers |-> NoConn]
    /\ raised = [t \in Callers |-> FALSE]

\* DBConnectionPool(connection_string, pool_size) is entered; no worker exists
PoolInit ==
    /\ pool_size \in 1..MaxPoolSize
    /\ connections = <<>>
    /\ closed = {}
    /\ created = 0
    /\ phase = "connecting"
    /\ overflowClosed = {}
    /\ CallersInit
    /\ task_queue = <<>>
    /\ is_running = FALSE
    /\ wpc = "none"
    /\ cur = NoTask
    /\ conn = NoConn
    /\ cursor = FALSE
    /\ exc = "none"
    /\ pending = FALSE
    /\ spc = "none"
    /\ HistInit
    /\ FacadeInit
    /\ LeaderInit

PoolNext ==
    \/ PoolInitConnect
    \/ PoolInitFail
    \/ PoolInitDone
    \/ PoolConstructed
    \/ \E t \in Callers : GetConnection(t)
    \/ \E t \in Callers : GetTimeout(t)
    \/ \E t \in Callers : FallbackConnect(t)
    \/ \E t \in Callers : FallbackFail(t)
    \/ \E t \in Callers : CallerClose(t)
    \/ \E t \in Callers : ReturnLive(t)
    \/ \E t \in Callers : ReturnClosed(t)
    \/ \E t \in Callers : ReplaceFail(t)
    \/ \E t \in Callers : ReplacePut(t)

PoolSpec == PoolInit /\ [][PoolNext]_vars

\* the pool's callers, each return_connection under way being scheduled: a put
\* that can go on does go on (no caller is made to call)
PoolFairSpec == PoolSpec /\ \A t \in Callers : SF_vars(ReplacePut(t))

\* ------------------------------------------------------ DBTaskQueue.add_task
\* the k-th task producer p submits
NextTaskOf(p) == <<p, 1 + Cardinality({i \in 1..Len(enqueued) : enqueued[i][1] = p})>>

\* self.task_queue.put((task_func, args, kwargs)): never blocks, never checks is_running
AddTask(p) ==
    /\ Len(enqueued) < MaxTasks
    /\ task_queue' = QueuePut(task_queue, NextTaskOf(p))
    /\ enqueued' = Append(enqueued, NextTaskOf(p))
    /\ UNCHANGED <<is_running, wpc, cur, conn, cursor, exc, pending>>
    /\ UNCHANGED <<started, rec, lost, stopAt, startedAtStop, inflightAtStop>>
    /\ UNCHANGED <<poolVars, callerVars, spc>>
    /\ UNCHANGED otherVars

\* ------------------------------------------------ DBTaskQueue._process_queue
\* the worker has a dequeued task whose finally block is not over
InFlight == {"acquire", "fallback", "cursor", "run", "commit", "handler",
             "finally", "return", "task_done"}

\* where the loop reads self.is_running: the while condition only
FlagReadAtEveryStep == {"loop"} \cup InFlight
FlagReadAt == {"loop"}

\* except pyodbc.OperationalError: conn = None (not returned to the pool)
DiscardsNothing(e) == FALSE
Discards(e) == e = "OperationalError"

\* the other three handlers: if conn: conn.rollback()
RollsBackNothing(e) == FALSE
RollsBack(e) == e \in {"ProgrammingError", "Error", "Exception"}

\* while self.is_running: true, the body is entered
WorkerContinue ==
    /\ wpc = "loop"
    /\ is_running
    /\ wpc' = "get"
    /\ UNCHANGED <<task_queue, is_running, cur, conn, cursor, exc, pending>>
    /\ UNCHANGED <<poolVars, callerVars, spc, histVars>>
    /\ UNCHANGED otherVars

\* while self.is_running: false, the loop and the thread end
WorkerExit ==
    /\ wpc \in FlagReadAt
    /\ ~is_running
    /\ wpc' = "exited"
    /\ UNCHANGED <<task_queue, is_running, cur, conn, cursor, exc, pending>>
    /\ UNCHANGED <<poolVars, callerVars, spc, histVars>>
    /\ UNCHANGED otherVars

\* task_func, args, kwargs = self.task_queue.get(timeout=1); conn = None; cursor = None
WorkerDequeue ==
    /\ wpc = "get"
    /\ task_queue # <<>>
    /\ cur' = QueueGet(task_queue)
    /\ task_queue' = QueueRest(task_queue)
    /\ started' = Append(started, QueueGet(task_queue))
    /\ conn' = NoConn
    /\ cursor' = FALSE
    /\ exc' = "none"
    /\ pending' = FALSE
    /\ wpc' = "acquire"
    /\ rec' = FreshRec
    /\ UNCHANGED <<is_running, enqueued, lost, stopAt, startedAtStop, inflightAtStop>>
    /\ UNCHANGED <<poolVars, callerVars, spc>>
    /\ UNCHANGED otherVars

\* except queue.Empty: continue
WorkerDequeueTimeout ==
    /\ wpc = "get"
    /\ task_queue = <<>>
    /\ wpc' = "loop"
    /\ UNCHANGED <<task_queue, is_running, cur, conn, cursor, exc, pending>>
    /\ UNCHANGED <<poolVars, callerVars, spc, histVars>>
    /\ UNCHANGED otherVars

\* conn = self.connection_pool.get_connection(): an idle connection is there
WorkerAcquire ==
    /\ wpc = "acquire"
    /\ ~Empty
    /\ conn' = QueueGet(connections)
    /\ connections' = QueueRest(connections)
    /\ rec' = [rec EXCEPT !.res = QueueGet(connections)]
    /\ wpc' = "cursor"
    /\ UNCHANGED <<task_queue, is_running, cur, cursor, exc, pending>>
    /\ UNCHANGED <<pool_size, closed, created, phase, overflowClosed>>
    /\ UNCHANGED <<enqueued, started, lost, stopAt, startedAtStop, inflightAtStop>>
    /\ UNCHANGED <<callerVars, spc>>
    /\ UNCHANGED otherVars

\* get_connection: queue.Empty after the timeout
WorkerAcquireTimeout ==
    /\ wpc = "acquire"
    /\ Empty
    /\ wpc' = "fallback"
    /\ UNCHANGED <<task_queue, is_running, cur, conn, cursor, exc, pending>>
    /\ UNCHANGED <<poolVars, callerVars, spc, histVars>>
    /\ UNCHANGED otherVars

\* get_connection: return pyodbc.connect(self.connection_string)
WorkerFallbackConnect ==
    /\ wpc = "fallback"
    /\ CanConnect
    /\ conn' = NewConn
    /\ created' = NewConn
    /\ rec' = [rec EXCEPT !.res = NewConn]
    /\ wpc' = "cursor"
    /\ UNCHANGED <<task_queue, is_running, cur, cursor, exc, pending>>
    /\ UNCHANGED <<pool_size, connections, closed, phase, overflowClosed>>
    /\ UNCHANGED <<enqueued, started, lost, stopAt, startedAtStop, inflightAtStop>>
    /\ UNCHANGED <<callerVars, spc>>
    /\ UNCHANGED otherVars

\* get_connection re-raises the fallback's pyodbc.Error; conn stays None
WorkerFallbackFail ==
    /\ wpc = "fallback"
    /\ \E e \in ConnectErrors : exc' = e
    /\ wpc' = "handler"
    /\ UNCHANGED <<task_queue, is_running, cur, conn, cursor, pending>>
    /\ UNCHANGED <<poolVars, callerVars, spc, histVars>>
    /\ UNCHANGED otherVars

\* cursor = conn.cursor()
WorkerCursor ==
    /\ wpc = "cursor"
    /\ cursor' = TRUE
    /\ wpc' = "run"
    /\ UNCHANGED <<task_queue, is_running, cur, conn, exc, pending>>
    /\ UNCHANGED <<poolVars, callerVars, spc, histVars>>
    /\ UNCHANGED otherVars

\* conn.cursor() raises; cursor stays None
WorkerCursorFail ==
    /\ wpc = "cursor"
    /\ \E e \in ConnectErrors : exc' = e
    /\ wpc' = "handler"
    /\ UNCHANGED <<task_queue, is_running, cur, conn, cursor, pending>>
    /\ UNCHANGED <<poolVars, callerVars, spc, histVars>>
    /\ UNCHANGED otherVars

\* task_func(cursor, *args, **kwargs) returns
WorkerRunOk ==
    /\ wpc = "run"
    /\ rec' = [rec EXCEPT !.out = "ok"]
    /\ wpc' = "commit"
    /\ UNCHANGED <<task_queue, is_running, cur, conn, cursor, exc, pending>>
    /\ UNCHANGED <<enqueued, started, lost, stopAt, startedAtStop, inflightAtStop>>
    /\ UNCHANGED <<poolVars, callerVars, spc>>
    /\ UNCHANGED otherVars

\* task_func(cursor, *args, **kwargs) raises
WorkerRunRaise ==
    /\ wpc = "run"
    /\ \E e \in ExcClasses :
         /\ exc' = e
         /\ rec' = [rec EXCEPT !.out = e]
         /\ lost' = IF e = "OperationalError" THEN lost \cup {conn} ELSE lost
    /\ wpc' = "handler"
    /\ UNCHANGED <<task_queue, is_running, cur, conn, cursor, pending>>
    /\ UNCHANGED <<enqueued, started, stopAt, startedAtStop, inflightAtStop>>
    /\ UNCHANGED <<poolVars, callerVars, spc>>
    /\ UNCHANGED otherVars

\* conn.commit() returns
WorkerCommit ==
    /\ wpc = "commit"
    /\ rec' = [rec EXCEPT !.committed = TRUE]
    /\ wpc' = "finally"
    /\ UNCHANGED <<task_queue, is_running, cur, conn, cursor, exc, pending>>
    /\ UNCHANGED <<enqueued, started, lost, stopAt, startedAtStop, inflightAtStop>>
    /\ UNCHANGED <<poolVars, callerVars, spc>>
    /\ UNCHANGED otherVars

\* conn.commit() raises
WorkerCommitFail ==
    /\ wpc = "commit"
    /\ \E e \in ConnectErrors : exc' = e
    /\ rec' = [rec EXCEPT !.committed = TRUE]
    /\ wpc' = "handler"
    /\ UNCHANGED <<task_queue, is_running, cur, conn, cursor, pending>>
    /\ UNCHANGED <<enqueued, started, lost, stopAt, startedAtStop, inflightAtStop>>
    /\ UNCHANGED <<poolVars, callerVars, spc>>
    /\ UNCHANGED otherVars

\* the except clause chosen by the exception's class: OperationalError drops
\* conn; the others roll back when conn is set, and the rollback returns
WorkerHandle ==
    /\ wpc = "handler"
    /\ conn' = IF Discards(exc) THEN NoConn ELSE conn
    /\ rec' = IF RollsBack(exc) /\ ~Discards(exc) /\ conn # NoConn
              THEN [rec EXCEPT !.rolled = TRUE]
              ELSE rec
    /\ exc' = "none"
    /\ wpc' = "finally"
    /\ UNCHANGED <<task_queue, is_running, cur, cursor, pending>>
    /\ UNCHANGED <<enqueued, started, lost, stopAt, startedAtStop, inflightAtStop>>
    /\ UNCHANGED <<poolVars, callerVars, spc>>
    /\ UNCHANGED otherVars

\* conn.rollback() raises inside the except clause: the finally block runs,
\* then the exception reaches the outer except
WorkerRollbackFail ==
    /\ wpc = "handler"
    /\ RollsBack(exc) /\ ~Discards(exc)
    /\ conn # NoConn
    /\ rec' = [rec EXCEPT !.rolled = TRUE]
    /\ exc' = "none"
    /\ pending' = TRUE
    /\ wpc' = "finally"
    /\ UNCHANGED <<task_queue, is_running, cur, conn, cursor>>
    /\ UNCHANGED <<enqueued, started, lost, stopAt, startedAtStop, inflightAtStop>>
    /\ UNCHANGED <<poolVars, callerVars, spc>>
    /\ UNCHANGED otherVars

\* finally: if cursor: cursor.close()
WorkerCursorClose ==
    /\ wpc = "finally"
    /\ cursor' = FALSE
    /\ wpc' = "return"
    /\ UNCHANGED <<task_queue, is_running, cur, conn, exc, pending>>
    /\ UNCHANGED <<poolVars, callerVars, spc, histVars>>
    /\ UNCHANGED otherVars

\* finally: cursor.close() raises: return_connection and task_done are skipped
WorkerCursorCloseFail ==
    /\ wpc = "finally"
    /\ cursor
    /\ rec' = [rec EXCEPT !.fin = TRUE]
    /\ cur' = NoTask
    /\ pending' = TRUE
    /\ wpc' = "critical"
    /\ UNCHANGED <<task_queue, is_running, conn, cursor, exc>>
    /\ UNCHANGED <<enqueued, started, lost, stopAt, startedAtStop, inflightAtStop>>
    /\ UNCHANGED <<poolVars, callerVars, spc>>
    /\ UNCHANGED otherVars

\* finally: if conn: self.connection_pool.return_connection(conn)
\* (a closed conn: the replacement is connected and put, the put waiting while
\* the queue is full; a failing connect is logged inside return_connection)
WorkerReturn ==
    /\ wpc = "return"
    /\ IF conn = NoConn
       THEN UNCHANGED <<connections, closed, overflowClosed, created, rec>>
       ELSE IF conn \notin closed
       THEN /\ PutNoWait(conn)
            /\ rec' = [rec EXCEPT !.released = ~Full]
            /\ UNCHANGED created
       ELSE /\ \E ok \in BOOLEAN :
                 IF ok /\ CanConnect
                 THEN /\ ~Full
                      /\ connections' = QueuePut(connections, NewConn)
                      /\ created' = NewConn
                 ELSE UNCHANGED <<connections, created>>
            /\ UNCHANGED <<closed, overflowClosed, rec>>
    /\ conn' = NoConn
    /\ wpc' = "task_done"
    /\ UNCHANGED <<task_queue, is_running, cur, cursor, exc, pending>>
    /\ UNCHANGED <<pool_size, phase>>
    /\ UNCHANGED <<enqueued, started, lost, stopAt, startedAtStop, inflightAtStop>>
    /\ UNCHANGED <<callerVars, spc>>
    /\ UNCHANGED otherVars

\* task_done followed by another get, the while condition not evaluated
WorkerTaskDoneThenGet ==
    /\ wpc = "task_done"
    /\ rec' = [rec EXCEPT !.done = @ + 1, !.fin = TRUE]
    /\ cur' = NoTask
    /\ wpc' = IF pending THEN "critical" ELSE "get"
    /\ UNCHANGED <<task_queue, is_running, conn, cursor, exc, pending>>
    /\ UNCHANGED <<enqueued, started, lost, stopAt, startedAtStop, inflightAtStop>>
    /\ UNCHANGED <<poolVars, callerVars, spc>>
    /\ UNCHANGED otherVars

\* finally: self.task_queue.task_done(); then the next iteration, or the outer
\* except when an exception is propagating
WorkerTaskDone ==
    /\ wpc = "task_done"
    /\ rec' = [rec EXCEPT !.done = @ + 1, !.fin = TRUE]
    /\ cur' = NoTask
    /\ wpc' = IF pending THEN "critical" ELSE "loop"
    /\ UNCHANGED <<task_queue, is_running, conn, cursor, exc, pending>>
    /\ UNCHANGED <<enqueued, started, lost, stopAt, startedAtStop, inflightAtStop>>
    /\ UNCHANGED <<poolVars, callerVars, spc>>
    /\ UNCHANGED otherVars

\* an outer except that ends the loop instead of sleeping
WorkerCooldownThenExit ==
    /\ wpc = "critical"
    /\ pending' = FALSE
    /\ wpc' = "exited"
    /\ UNCHANGED <<task_queue, is_running, cur, conn, cursor, exc>>
    /\ UNCHANGED <<poolVars, callerVars, spc, histVars>>
    /\ UNCHANGED otherVars

\* except Exception: logging.critical(...); time.sleep(5)
WorkerCooldown ==
    /\ wpc = "critical"
    /\ pending' = FALSE
    /\ wpc' = "loop"
    /\ UNCHANGED <<task_queue, is_running, cur, conn, cursor, exc>>
    /\ UNCHANGED <<poolVars, callerVars, spc, histVars>>
    /\ UNCHANGED otherVars

\* ---------------------------------------------------------- DB.shutdown
\* DBTaskQueue.shutdown: self.is_running = False
ShutdownSetFlag ==
    /\ spc = "idle"
    /\ is_running' = FALSE
    /\ spc' = "join"
    /\ stopAt' = Len(enqueued)
    /\ startedAtStop' = Len(started)
    /\ inflightAtStop' = IF wpc \in InFlight THEN cur ELSE NoTask
    /\ UNCHANGED <<task_queue, wpc, cur, conn, cursor, exc, pending>>
    /\ UNCHANGED <<enqueued, started, rec, lost>>
    /\ UNCHANGED <<poolVars, callerVars>>
    /\ UNCHANGED otherVars

\* if self.worker_thread.is_alive(): self.worker_thread.join(timeout=5)
\* returns when the thread has ended, or after 5 s: the idle worker polls every
\* 1 s, so the join times out only on a worker busy with a task or cooling down
ShutdownJoin ==
    /\ spc = "join"
    /\ wpc \in {"exited", "critical"} \cup InFlight
    /\ spc' = "close_all"
    /\ UNCHANGED <<poolVars, callerVars, workerVars, histVars>>
    /\ UNCHANGED otherVars

\* close_all: while not self.connections.empty(): conn = get(block=False); conn.close()
CloseAllStep ==
    /\ spc = "close_all"
    /\ ~Empty
    /\ closed' = closed \cup {QueueGet(connections)}
    /\ connections' = QueueRest(connections)
    /\ UNCHANGED <<pool_size, created, phase, overflowClosed>>
    /\ UNCHANGED <<callerVars, workerVars, spc, histVars>>
    /\ UNCHANGED otherVars

\* close_all: the queue is empty, the loop ends and DB.shutdown returns
CloseAllDone ==
    /\ spc = "close_all"
    /\ Empty
    /\ spc' = "done"
    /\ UNCHANGED <<poolVars, callerVars, workerVars, histVars>>
    /\ UNCHANGED otherVars

\* ----------------------------------------------------------------- Spec
\* the state DB() leaves: DBConnectionPool(connection_string) built with the
\* default size, DBTaskQueue built and its worker started
Init ==
    /\ pool_size = DefaultPoolSize
    /\ connections = [i \in 1..DefaultPoolSize |-> i]
    /\ closed = {}
    /\ created = DefaultPoolSize
    /\ phase = "ready"
    /\ overflowClosed = {}
    /\ CallersInit
    /\ task_queue = <<>>
    /\ is_running = TRUE
    /\ wpc = "loop"
    /\ cur = NoTask
    /\ conn = NoConn
    /\ cursor = FALSE
    /\ exc = "none"
    /\ pending = FALSE
    /\ spc = "idle"
    /\ HistInit
    /\ FacadeInstalled
    /\ LeaderInit

Next ==
    \/ \E p \in Producers : AddTask(p)
    \/ WorkerContinue
    \/ WorkerExit
    \/ WorkerDequeue
    \/ WorkerDequeueTimeout
    \/ WorkerAcquire
    \/ WorkerAcquireTimeout
    \/ WorkerFallbackConnect
    \/ WorkerFallbackFail
    \/ WorkerCursor
    \/ WorkerCursorFail
    \/ WorkerRunOk
    \/ WorkerRunRaise
    \/ WorkerCommit
    \/ WorkerCommitFail
    \/ WorkerHandle
    \/ WorkerRollbackFail
    \/ WorkerCursorClose
    \/ WorkerCursorCloseFail
    \/ WorkerReturn
    \/ WorkerTaskDone
    \/ WorkerCooldown
    \/ ShutdownSetFlag
    \/ ShutdownJoin
    \/ CloseAllStep
    \/ CloseAllDone

Spec == Init /\ [][Next]_vars

\* ------------------------------------------------- DB._update_leaderboard
Scores == 0..MaxScore

\* elif score > result[0]
ExceedsAlways(score, stored) == TRUE
Exceeds(score, stored) == score > stored

\* the task starts: SELECT score ... ; result = cursor.fetchone()
LeaderSelect(score) ==
    /\ lb_pc = "idle"
    /\ Len(submitted) < MaxSubmits
    /\ lb_score' = score
    /\ lb_result' = leaderboard
    /\ lb_pc' = "selected"
    /\ UNCHANGED <<leaderboard, submitted>>
    /\ UNCHANGED <<poolVars, callerVars, workerVars, spc, histVars, facadeVars>>

\* if result is None: INSERT INTO leaderboard ... score; the task ends
LeaderInsert ==
    /\ lb_pc = "selected"
    /\ lb_result = <<>>
    /\ leaderboard' = <<lb_score>>
    /\ submitted' = Append(submitted, lb_score)
    /\ lb_pc' = "idle"
    /\ UNCHANGED <<lb_score, lb_result>>
    /\ UNCHANGED <<poolVars, callerVars, workerVars, spc, histVars, facadeVars>>

\* elif score > result[0]: UPDATE leaderboard SET score = score; the task ends
LeaderUpdate ==
    /\ lb_pc = "selected"
    /\ lb_result # <<>>
    /\ Exceeds(lb_score, lb_result[1])
    /\ leaderboard' = <<lb_score>>
    /\ submitted' = Append(submitted, lb_score)
    /\ lb_pc' = "idle"
    /\ UNCHANGED <<lb_score, lb_result>>
    /\ UNCHANGED <<poolVars, callerVars, workerVars, spc, histVars, facadeVars>>

\* neither branch: the row is left as it is; the task ends
LeaderKeep ==
    /\ lb_pc = "selected"
    /\ lb_result # <<>>
    /\ ~Exceeds(lb_score, lb_result[1])
    /\ submitted' = Append(submitted, lb_score)
    /\ lb_pc' = "idle"
    /\ UNCHANGED <<leaderboard, lb_score, lb_result>>
    /\ UNCHANGED <<poolVars, callerVars, workerVars, spc, histVars, facadeVars>>

\* leaderboard tasks of one user, run by the single worker one after another
LeaderNext ==
    \/ \E score \in Scores : LeaderSelect(score)
    \/ LeaderInsert
    \/ LeaderUpdate
    \/ LeaderKeep

LeaderSpec == Init /\ [][LeaderNext]_vars

\* ------------------------------------------------------------- DB.__new__
\* with cls._init_lock: the lock can be taken
LockAlwaysAvailable == TRUE
LockAvailable == _init_lock = NoThread

\* thread t calls DB() and enters `with cls._init_lock`
F_Lock(t) ==
    /\ fpc[t] = "idle"
    /\ Len(fret[t]) < MaxCalls
    /\ LockAvailable
    /\ _init_lock' = t
    /\ fpc' = [fpc EXCEPT ![t] = "check"]
    /\ UNCHANGED <<_instance, _connection_pool, _task_queue, fret,
                   instances, poolsBuilt, queuesBuilt>>
    /\ UNCHANGED poolVars
    /\ UNCHANGED <<task_queue, is_running, wpc, cur, conn, cursor, exc, pending>>
    /\ UNCHANGED <<callerVars, spc, histVars, leaderVars>>

\* if cls._instance is None
F_CheckInstance(t) ==
    /\ fpc[t] = "check"
    /\ fpc' = [fpc EXCEPT ![t] = IF _instance = 0 THEN "new" ELSE "unlock"]
    /\ UNCHANGED <<_instance, _connection_pool, _task_queue, _init_lock, fret,
                   instances, poolsBuilt, queuesBuilt>>
    /\ UNCHANGED poolVars
    /\ UNCHANGED <<task_queue, is_running, wpc, cur, conn, cursor, exc, pending>>
    /\ UNCHANGED <<callerVars, spc, histVars, leaderVars>>

\* cls._instance = super(DB, cls).__new__(cls)
F_NewInstance(t) ==
    /\ fpc[t] = "new"
    /\ instances' = instances + 1
    /\ _instance' = instances + 1
    /\ fpc' = [fpc EXCEPT ![t] = "checkpool"]
    /\ UNCHANGED <<_connection_pool, _task_queue, _init_lock, fret,
                   poolsBuilt, queuesBuilt>>
    /\ UNCHANGED poolVars
    /\ UNCHANGED <<task_queue, is_running, wpc, cur, conn, cursor, exc, pending>>
    /\ UNCHANGED <<callerVars, spc, histVars, leaderVars>>

\* if cls._connection_pool is None: try: DBConnectionPool(connection_string)
\* is entered (self.connections = queue.Queue(maxsize=pool_size))
F_CheckPool(t) ==
    /\ fpc[t] = "checkpool"
    /\ IF _connection_pool
       THEN /\ fpc' = [fpc EXCEPT ![t] = "unlock"]
            /\ UNCHANGED <<poolVars, poolsBuilt>>
       ELSE /\ fpc' = [fpc EXCEPT ![t] = "building"]
            /\ poolsBuilt' = poolsBuilt + 1
            /\ connections' = <<>>
            /\ phase' = "connecting"
            /\ UNCHANGED <<pool_size, closed, created, overflowClosed>>
    /\ UNCHANGED <<_instance, _connection_pool, _task_queue, _init_lock, fret,
                   instances, queuesBuilt>>
    /\ UNCHANGED <<task_queue, is_running, wpc, cur, conn, cursor, exc, pending>>
    /\ UNCHANGED <<callerVars, spc, histVars, leaderVars>>

\* cls._connection_pool = <the pool DBConnectionPool(...) returned>
F_InstallPool(t) ==
    /\ fpc[t] = "building"
    /\ phase = "ready"
    /\ _connection_pool' = TRUE
    /\ fpc' = [fpc EXCEPT ![t] = "queue"]
    /\ UNCHANGED <<_instance, _task_queue, _init_lock, fret,
                   instances, poolsBuilt, queuesBuilt>>
    /\ UNCHANGED poolVars
    /\ UNCHANGED <<task_queue, is_running, wpc, cur, conn, cursor, exc, pending>>
    /\ UNCHANGED <<callerVars, spc, histVars, leaderVars>>

\* cls._task_queue = DBTaskQueue(cls._connection_pool): the queue is made,
\* is_running set and the worker thread started
F_BuildQueue(t) ==
    /\ fpc[t] = "queue"
    /\ task_queue' = <<>>
    /\ is_running' = TRUE
    /\ wpc' = "loop"
    /\ _task_queue' = TRUE
    /\ queuesBuilt' = queuesBuilt + 1
    /\ fpc' = [fpc EXCEPT ![t] = "unlock"]
    /\ UNCHANGED <<_instance, _connection_pool, _init_lock, fret, instances, poolsBuilt>>
    /\ UNCHANGED <<cur, conn, cursor, exc, pending>>
    /\ UNCHANGED poolVars
    /\ UNCHANGED <<callerVars, spc, histVars, leaderVars>>

\* an except clause that logs and does not re-raise: DB() goes on to return
F_InitSwallowed(t) ==
    /\ fpc[t] = "building"
    /\ phase = "failed"
    /\ fpc' = [fpc EXCEPT ![t] = "unlock"]
    /\ UNCHANGED <<_instance, _connection_pool, _task_queue, _init_lock, fret,
                   instances, poolsBuilt, queuesBuilt>>
    /\ UNCHANGED poolVars
    /\ UNCHANGED <<task_queue, is_running, wpc, cur, conn, cursor, exc, pending>>
    /\ UNCHANGED <<callerVars, spc, histVars, leaderVars>>

\* except Exception: logging.critical(...); raise. The exception leaves the
\* with block, which releases the lock, and DB() raises to its caller
F_InitFailed(t) ==
    /\ fpc[t] = "building"
    /\ phase = "failed"
    /\ _init_lock' = NoThread
    /\ fret' = [fret EXCEPT ![t] = Append(@, 0)]
    /\ fpc' = [fpc EXCEPT ![t] = "idle"]
    /\ UNCHANGED <<_instance, _connection_pool, _task_queue,
                   instances, poolsBuilt, queuesBuilt>>
    /\ UNCHANGED poolVars
    /\ UNCHANGED <<task_queue, is_running, wpc, cur, conn, cursor, exc, pending>>
    /\ UNCHANGED <<callerVars, spc, histVars, leaderVars>>

\* the with block ends: the lock is released
F_Unlock(t) ==
    /\ fpc[t] = "unlock"
    /\ _init_lock' = NoThread
    /\ fpc' = [fpc EXCEPT ![t] = "return"]
    /\ UNCHANGED <<_instance, _connection_pool, _task_queue, fret,
                   instances, poolsBuilt, queuesBuilt>>
    /\ UNCHANGED poolVars
    /\ UNCHANGED <<task_queue, is_running, wpc, cur, conn, cursor, exc, pending>>
    /\ UNCHANGED <<callerVars, spc, histVars, leaderVars>>

\* return cls._instance
F_Return(t) ==
    /\ fpc[t] = "return"
    /\ fret' = [fret EXCEPT ![t] = Append(@, _instance)]
    /\ fpc' = [fpc EXCEPT ![t] = "idle"]
    /\ UNCHANGED <<_instance, _connection_pool, _task_queue, _init_lock,
                   instances, poolsBuilt, queuesBuilt>>
    /\ UNCHANGED poolVars
    /\ UNCHANGED <<task_queue, is_running, wpc, cur, conn, cursor, exc, pending>>
    /\ UNCHANGED <<callerVars, spc, histVars, leaderVars>>

\* the module imported: class DB with nothing constructed, no pool, no worker
FacadeStart ==
    /\ pool_size = DefaultPoolSize
    /\ connections = <<>>
    /\ closed = {}
    /\ created = 0
    /\ phase = "none"
    /\ overflowClosed = {}
    /\ CallersInit
    /\ task_queue = <<>>
    /\ is_running = FALSE
    /\ wpc = "none"
    /\ cur = NoTask
    /\ conn = NoConn
    /\ cursor = FALSE
    /\ exc = "none"
    /\ pending = FALSE
    /\ spc = "none"
    /\ HistInit
    /\ FacadeInit
    /\ LeaderInit

FacadeNext ==
    \/ \E t \in Threads : F_Lock(t)
    \/ \E t \in Threads : F_CheckInstance(t)
    \/ \E t \in Threads : F_NewInstance(t)
    \/ \E t \in Threads : F_CheckPool(t)
    \/ PoolInitConnect
    \/ PoolInitFail
    \/ PoolInitDone
    \/ PoolConstructed
    \/ \E t \in Threads : F_InstallPool(t)
    \/ \E t \in Threads : F_BuildQueue(t)
    \/ \E t \in Threads : F_InitFailed(t)
    \/ \E t \in Threads : F_Unlock(t)
    \/ \E t \in Threads : F_Return(t)

\* threads calling DB() concurrently, from the first call on
FacadeSpec == FacadeStart /\ [][FacadeNext]_vars

\* --------------------------------------------------------------- LiveSpec
\* one step of the worker thread, whatever its position
WorkerStep ==
    \/ WorkerContinue
    \/ WorkerExit
    \/ WorkerDequeue
    \/ WorkerDequeueTimeout
    \/ WorkerAcquire
    \/ WorkerAcquireTimeout
    \/ WorkerFallbackConnect
    \/ WorkerFallbackFail
    \/ WorkerCursor
    \/ WorkerCursorFail
    \/ WorkerRunOk
    \/ WorkerRunRaise
    \/ WorkerCommit
    \/ WorkerCommitFail
    \/ WorkerHandle
    \/ WorkerRollbackFail
    \/ WorkerCursorClose
    \/ WorkerCursorCloseFail
    \/ WorkerReturn
    \/ WorkerTaskDone
    \/ WorkerCooldown

\* DBTaskQueue(DBConnectionPool(connection_string, pool_size)) just constructed,
\* for a pool small enough to lose every connection to the tasks of one run
LiveInit ==
    /\ pool_size \in 1..MaxPoolSize
    /\ connections = [i \in 1..pool_size |-> i]
    /\ closed = {}
    /\ created = pool_size
    /\ phase = "ready"
    /\ overflowClosed = {}
    /\ CallersInit
    /\ task_queue = <<>>
    /\ is_running = TRUE
    /\ wpc = "loop"
    /\ cur = NoTask
    /\ conn = NoConn
    /\ cursor = FALSE
    /\ exc = "none"
    /\ pending = FALSE
    /\ spc = "idle"
    /\ HistInit
    /\ FacadeInstalled
    /\ LeaderInit

\* the program with its daemon worker thread scheduled fairly
LiveSpec == LiveInit /\ [][Next]_vars /\ WF_vars(WorkerStep)

\* =================================================================== claims
LastStarted == started[Len(started)]
\* t was put on the queue after shutdown had set is_running to False
EnqueuedAfterStop(t) ==
    ~is_running /\ \E j \in (stopAt + 1)..Len(enqueued) : enqueued[j] = t
\* t was on the queue, not yet dequeued, when shutdown set is_running to False
QueuedAtStop(t) ==
    /\ ~is_running
    /\ \E j \in 1..stopAt : enqueued[j] = t
    /\ \A i \in 1..startedAtStop : started[i] # t
RollbackClasses == {"ProgrammingError", "Error", "Exception"}

\* C1: the worker dequeues tasks in exactly the order add_task appended them,
\* whoever appended them: the tasks dequeued so far followed by the tasks still
\* queued are the tasks appended, in append order; no task is dequeued twice,
\* and a dequeued task (failed or not) is never back on the queue.
C1_FifoAtMostOnce ==
    /\ started \o task_queue = enqueued
    /\ NoDup(started)
    /\ \A i \in 1..Len(task_queue) : task_queue[i] \notin Range(started)

\* C1 witness: two tasks of two different producers were processed, the second
\* one failed and its processing is over.
C1_Witness ==
    /\ Len(started) = 2
    /\ started[1][1] # started[2][1]
    /\ rec.out = "Error"
    /\ rec.fin /\ rec.done = 1
    /\ task_queue = <<>>
    /\ wpc = "get"

\* C2 (as claimed): no task enqueued after shutdown set the stop flag is ever
\* executed by the worker.
C2_NoLateTaskExecuted ==
    (started # <<>> /\ EnqueuedAfterStop(LastStarted)) => rec.out = "none"

\* C3 (as claimed): no task that was queued, unstarted, when shutdown set the
\* stop flag is ever dequeued and executed afterwards.
C3_PendingTasksDiscarded ==
    (started # <<>> /\ QueuedAtStop(LastStarted)) => rec.out = "none"

\* C4: a stop request does not interrupt a task: whenever the worker is not in
\* the middle of a task (in particular once it has left its loop), the task it
\* dequeued last has been through its finally block, with commit invoked after
\* an operation that returned and rollback invoked after one that raised a
\* non-connectivity failure; and when its finally block ran to task_done the
\* worker no longer holds its connection (it was released, or dropped by the
\* failure handling).
C4_InFlightTaskNotInterrupted ==
    (wpc \notin InFlight /\ started # <<>>) =>
        /\ rec.fin
        /\ rec.out = "ok" => rec.committed
        /\ rec.out \in RollbackClasses => rec.rolled
        /\ rec.done = 1 => conn = NoConn

\* C4 witness: the worker has left its loop, and the task it had in hand when
\* shutdown set the flag ran on to commit and release.
C4_Witness ==
    /\ wpc = "exited"
    /\ inflightAtStop # NoTask
    /\ inflightAtStop = LastStarted
    /\ rec.fin /\ rec.committed /\ rec.released

\* C5 (as claimed): once DB.shutdown has returned and the worker has left its
\* loop, every connection idle in the pool is closed.
C5_NoLiveIdleAfterShutdown ==
    (spc = "done" /\ wpc = "exited") =>
        \A i \in 1..Len(connections) : connections[i] \in closed

\* C6: each connection has at most one owner: the idle queue holds no
\* connection twice, no caller holds a connection that is idle in the pool or
\* that another caller holds, and a replacement being put is nobody else's.
C6_ExclusiveOwnership ==
    /\ NoDup(connections)
    /\ \A t \in Callers :
         /\ holding[t] # NoConn =>
              /\ holding[t] \notin Range(connections)
              /\ \A u \in Callers \ {t} : holding[u] # holding[t] /\ repl[u] # holding[t]
         /\ repl[t] # NoConn =>
              /\ repl[t] \notin Range(connections)
              /\ \A u \in Callers \ {t} : repl[u] # repl[t]

\* C6 witness: two callers hold connections at once, one taken from the pool
\* and one created by the timeout fallback.
C6_Witness ==
    \E t, u \in Callers :
        /\ t # u
        /\ holding[t] \in 1..pool_size
        /\ holding[u] > pool_size
        /\ cpc[t] = "hold" /\ cpc[u] = "hold"

\* C7: the pool never stores more than pool_size idle connections, and a
\* return_connection of a live connection to a pool that already stores
\* pool_size closes that connection and leaves the stored ones unchanged.
C7_ReleaseAtCapacity(t) ==
    (/\ cpc[t] = "hold"
     /\ holding[t] \notin closed
     /\ Len(connections) = pool_size
     /\ cpc'[t] = "idle") =>
        /\ holding[t] \in closed'
        /\ connections' = connections
C7_PoolNeverExceedsCapacity ==
    /\ [](Len(connections) <= pool_size)
    /\ [][\A t \in Callers : C7_ReleaseAtCapacity(t)]_vars

\* C7 witness: a live connection was released to a full pool and closed, and
\* the pool is still full.
C7_Witness ==
    /\ overflowClosed # {}
    /\ overflowClosed \subseteq closed
    /\ Len(connections) = pool_size

\* C8: a connection on which a task's operation raised OperationalError is
\* never idle in the pool again, and the worker holds it no longer than the
\* except clause of that task: no later get_connection returns it.
C8_FailedConnectionNeverReused ==
    \A r \in lost :
        /\ r \notin Range(connections)
        /\ conn = r => wpc = "handler"

\* C8 witness: after an operation failed with OperationalError, a later task
\* has acquired a connection, another one.
C8_Witness ==
    /\ lost # {}
    /\ Len(started) = 2
    /\ wpc = "cursor"
    /\ conn # NoConn
    /\ conn \notin lost

\* C9 (as claimed): once the processing of a task whose operation raised
\* ProgrammingError, pyodbc.Error or another exception is over, rollback was
\* invoked, commit was not, and the connection was released to the pool.
C9_RollbackThenRelease ==
    (rec.fin /\ rec.out \in RollbackClasses) =>
        rec.rolled /\ ~rec.committed /\ rec.released

\* C10: when every connect succeeds, DBConnectionPool.__init__ ends with
\* exactly pool_size connections in existence, pairwise distinct, all live and
\* idle in the pool, none checked out.
C10_InitFillsPool ==
    phase = "initialized" =>
        /\ Len(connections) = pool_size
        /\ NoDup(connections)
        /\ created = pool_size
        /\ Range(connections) = 1..created
        /\ Range(connections) \cap closed = {}
        /\ \A t \in Callers : holding[t] = NoConn /\ repl[t] = NoConn

\* C10 witness: the constructor is over for a pool of more than one connection.
C10_Witness ==
    /\ phase = "initialized"
    /\ pool_size > 1
    /\ Len(connections) = pool_size

\* C11: a get_connection that finds no idle connection within the timeout
\* returns a connection created at that moment, none that existed before
\* (handed out, held or idle), and get_connection raises to its caller only
\* when that fallback connect fails.
C11_FallbackStep(t) ==
    /\ (cpc[t] = "fallback" /\ cpc'[t] = "hold") =>
          /\ holding'[t] # NoConn
          /\ holding'[t] \notin 1..created
          /\ holding'[t] \notin Range(connections')
          /\ \A u \in Callers \ {t} : holding'[u] # holding'[t] /\ repl'[u] # holding'[t]
          /\ ~raised'[t]
    /\ (~raised[t] /\ raised'[t]) =>
          /\ cpc[t] = "fallback"
          /\ cpc'[t] = "idle"
          /\ created' = created
C11_FallbackReturnsFresh ==
    [][\A t \in Callers : C11_FallbackStep(t)]_vars

\* C11 witness: one caller holds the connection its timeout fallback has just
\* created, while the fallback of another caller has failed and raised.
C11_Witness ==
    \E t, u \in Callers :
        /\ t # u
        /\ cpc[t] = "hold" /\ holding[t] = created /\ holding[t] > pool_size
        /\ ~raised[t]
        /\ cpc[u] = "idle" /\ raised[u]

\* C17 (as claimed): a return_connection under way always returns, also the
\* one that releases a closed connection and has connected its replacement
\* while the pool stores pool_size idle connections.
C17_ReturnAlwaysReturns ==
    \A t \in Callers : (cpc[t] = "put") ~> (cpc[t] = "idle")

\* C18: no closed connection is ever idle in the pool; releasing a closed
\* connection stores a newly created live one in its place, and when the
\* connect of the replacement fails return_connection returns without raising
\* and leaves the idle connections as they were.
C18_ReleaseClosedStep(t) ==
    /\ (cpc[t] = "hold" /\ cpc'[t] = "put") =>
          /\ holding[t] \in closed
          /\ repl'[t] \notin 1..created
          /\ repl'[t] \notin closed'
          /\ connections' = connections
    /\ (cpc[t] = "put" /\ cpc'[t] = "idle") =>
          /\ connections' = Append(connections, repl[t])
          /\ repl[t] # holding[t]
          /\ holding[t] \notin Range(connections')
          /\ ~raised'[t]
    /\ (cpc[t] = "hold" /\ holding[t] \in closed /\ cpc'[t] = "idle") =>
          /\ connections' = connections
          /\ created' = created
          /\ ~raised'[t]
C18_ClosedNeverStored ==
    /\ [](Range(connections) \cap closed = {})
    /\ [][\A t \in Callers : C18_ReleaseClosedStep(t)]_vars

\* C18 witness: in a pool of one, connection 1 was closed by its holder and
\* released, and its replacement, connection 2, is idle in the pool and live.
C18_Witness ==
    /\ pool_size = 1
    /\ closed = {1}
    /\ overflowClosed = {}
    /\ created = 2
    /\ connections = <<2>>
    /\ \A t \in Callers : cpc[t] = "idle" /\ holding[t] = NoConn /\ ~raised[t]

\* C15 (as claimed): once the processing of a dequeued task is over, whatever
\* its outcome, task_done was called for it exactly once.
C15_TaskDoneExactlyOnce ==
    rec.fin => rec.done = 1

\* C20: after shutdown has set is_running to False the worker starts
\* processing at most one further task.
C20_AtMostOneMoreTask ==
    ~is_running => Len(started) <= startedAtStop + 1

\* C20 witness: the worker had no task in hand when the flag was set, started
\* one task afterwards, finished it and left its loop.
C20_Witness ==
    /\ ~is_running
    /\ inflightAtStop = NoTask
    /\ Len(started) = startedAtStop + 1
    /\ rec.fin
    /\ wpc = "exited"

\* C16: while shutdown has not set is_running to False the worker has not left
\* its loop; after the outer except it is back at the loop condition; and with
\* the worker scheduled fairly every task on the queue is eventually dequeued
\* and its processing ended, unless shutdown is requested first, also when the
\* pool has lost every connection to OperationalError.
AllTasks == Producers \X (1..MaxTasks)
C16_WorkerKeepsGoing ==
    /\ [](is_running => wpc # "exited")
    /\ (wpc = "critical") ~> (wpc = "loop")
    /\ \A t \in AllTasks :
         (t \in Range(task_queue)) ~> (~is_running \/ (t \in Range(started) /\ cur # t))

\* C16 witness: every connection the pool was built with was lost to an
\* OperationalError, the pool was empty, and the worker, still running, has
\* completed a later task on a connection of the timeout fallback.
C16_Witness ==
    /\ is_running
    /\ lost = 1..pool_size
    /\ Len(started) = 2
    /\ rec.fin /\ rec.out = "ok" /\ rec.done = 1
    /\ rec.res > pool_size
    /\ wpc = "loop"

\* C14: after each of a sequence of successful leaderboard tasks of one user
\* the stored score is the maximum of the scores submitted so far: the first
\* task inserts the row, a later score replaces the stored one only when it is
\* strictly greater, and the stored score never decreases.
MaxOf(S) == CHOOSE m \in S : \A x \in S : x <= m
C14_RowStep ==
    /\ (leaderboard = <<>> /\ leaderboard' # <<>>) =>
          submitted = <<>> /\ leaderboard' = <<lb_score>>
    /\ leaderboard # <<>> =>
          /\ leaderboard' # <<>>
          /\ leaderboard'[1] >= leaderboard[1]
          /\ leaderboard' # leaderboard =>
                lb_score > leaderboard[1] /\ leaderboard' = <<lb_score>>
C14_LeaderboardKeepsMaximum ==
    /\ [](IF submitted = <<>>
          THEN leaderboard = <<>>
          ELSE leaderboard = <<MaxOf(Range(submitted))>>)
    /\ [][C14_RowStep]_vars

\* C14 witness: three tasks have run, the second with a score below the first
\* (row kept), the third with a score above it (row updated).
C14_Witness ==
    /\ lb_pc = "idle"
    /\ Len(submitted) = 3
    /\ submitted[2] < submitted[1]
    /\ submitted[1] < submitted[3]
    /\ leaderboard = <<submitted[3]>>

\* C12: whatever the interleaving of the threads calling DB(), at most one DB
\* object, one connection pool and one task queue with its worker are ever
\* constructed, only the thread inside the lock constructs, and every call
\* that returns returns that one object.
C12_ConstructedOnce ==
    /\ instances <= 1
    /\ poolsBuilt <= 1
    /\ queuesBuilt <= 1
    /\ \A t \in Threads :
         /\ fpc[t] \in {"check", "new", "checkpool", "building", "queue", "unlock"} =>
               _init_lock = t
         /\ \A i \in 1..Len(fret[t]) : fret[t][i] \in {0, _instance}
    /\ \A t, u \in Threads : \A i \in 1..Len(fret[t]) : \A j \in 1..Len(fret[u]) :
         (fret[t][i] # 0 /\ fret[u][j] # 0) => fret[t][i] = fret[u][j]

\* C12 witness: every thread has called DB() and was returned the one
\* instance, its pool and task queue installed.
C12_Witness ==
    /\ _connection_pool /\ _task_queue
    /\ poolsBuilt = 1 /\ queuesBuilt = 1
    /\ \A t \in Threads : Len(fret[t]) = MaxCalls /\ \A i \in 1..MaxCalls : fret[t][i] = 1

\* C13: when a connect of DBConnectionPool.__init__ fails during the first
\* DB(), that call raises to its caller, and no pool and no task queue are
\* installed and no worker started; an installed pool holds pool_size
\* connections.
C13_FailStep(t) ==
    (fpc[t] = "building" /\ phase = "failed" /\ fpc'[t] # "building") =>
        /\ fret'[t] = Append(fret[t], 0)
        /\ fpc'[t] = "idle"
        /\ _init_lock' = NoThread
C13_InitFailurePropagates ==
    /\ [](phase = "failed" =>
            /\ ~_connection_pool /\ ~_task_queue
            /\ queuesBuilt = 0 /\ wpc = "none" /\ ~is_running)
    /\ [](_connection_pool =>
            Len(connections) = pool_size /\ created = pool_size /\ phase = "ready")
    /\ [](\A t \in Threads : \A i \in 1..Len(fret[t]) :
            (fret[t][i] = 0) => phase = "failed")
    /\ [][\A t \in Threads : C13_FailStep(t)]_vars

\* C13 witness: the second connect of the construction failed, and the call
\* of the thread that triggered it has raised.
C13_Witness ==
    /\ phase = "failed"
    /\ created = 1
    /\ \E t \in Threads : fret[t] = <<0>> /\ fpc[t] = "idle"
    /\ _init_lock = NoThread

\* C19 (as claimed): every DB() that returned an instance returned one whose
\* connection pool and task queue are installed, also after an earlier
\* construction failed.
C19_ReturnedInstanceInitialized ==
    \A t \in Threads : \A i \in 1..Len(fret[t]) :
        fret[t][i] # 0 => (_connection_pool /\ _task_queue)

====
